---- MODULE Spec2Model ----
(***************************************************************************)
(* A model of oppy's Tag Query Language: the tokenizer (oppy/oplex.py),    *)
(* the parser and its AST (opparser.py), and the record collection and     *)
(* evaluator (oppy/opdb.py).                                               *)
(*                                                                         *)
(* Text is a sequence of one-character strings.  A Python value is a       *)
(* record tagged with its type t: a str holds s, an int n, a dict d (a     *)
(* function of its keys), a list l; None holds nothing.                    *)
(***************************************************************************)
EXTENDS Integers, Sequences, FiniteSets, TLC

VARIABLES
    objects,    \* OpDatabase._objects: the list the database was built on
    A,          \* OpResponse._objects of a first collection held by the caller
    B,          \* OpResponse._objects of a second collection held by the caller
    pc,         \* "idle": the caller is about to call; "returned": a call ended;
                \* "lexing": a scan of the lexer's input is under way
    ret,        \* the call that ended last, with its arguments and its outcome
    lexer       \* the lexer a scan runs on: its input, its position, and what
                \* it returned and reported so far

vars == <<objects, A, B, pc, ret, lexer>>

----------------------------------------------------------------------------
(* Characters and text *)

LowerLetters ==
    <<"a","b","c","d","e","f","g","h","i","j","k","l","m",
      "n","o","p","q","r","s","t","u","v","w","x","y","z">>

UpperLetters ==
    <<"A","B","C","D","E","F","G","H","I","J","K","L","M",
      "N","O","P","Q","R","S","T","U","V","W","X","Y","Z">>

Digits == <<"0","1","2","3","4","5","6","7","8","9">>

Range(s) == {s[i] : i \in DOMAIN s}

Letter == Range(LowerLetters) \cup Range(UpperLetters)

Digit == Range(Digits)

\* str.lower() of one character, as re.IGNORECASE folds it
Lower(c) ==
    IF c \in Range(UpperLetters)
    THEN LowerLetters[CHOOSE i \in DOMAIN UpperLetters : UpperLetters[i] = c]
    ELSE c

\* the decimal digit c as a number
DigitValue(c) == (CHOOSE i \in DOMAIN Digits : Digits[i] = c) - 1

\* int(text) of a run of decimal digits
RECURSIVE ParseInt(_)
ParseInt(s) ==
    IF s = <<>> THEN 0
    ELSE 10 * ParseInt(SubSeq(s, 1, Len(s) - 1)) + DigitValue(s[Len(s)])

\* str(n) of a non-negative integer
RECURSIVE FormatInt(_)
FormatInt(n) ==
    IF n < 10 THEN <<Digits[n + 1]>>
    ELSE FormatInt(n \div 10) \o <<Digits[(n % 10) + 1]>>

\* text.replace(old, new) for a one-character old
RECURSIVE Replace(_, _, _)
Replace(s, old, new) ==
    IF s = <<>> THEN <<>>
    ELSE (IF Head(s) = old THEN new ELSE <<Head(s)>>) \o Replace(Tail(s), old, new)

\* text.strip(ch): drops every leading and trailing ch
RECURSIVE Strip(_, _)
Strip(s, ch) ==
    IF s = <<>> THEN <<>>
    ELSE IF Head(s) = ch THEN Strip(Tail(s), ch)
    ELSE IF s[Len(s)] = ch THEN Strip(SubSeq(s, 1, Len(s) - 1), ch)
    ELSE s

\* text.split(sep) for a one-character sep: always at least one piece
RECURSIVE Split(_, _)
Split(s, sep) ==
    IF \A i \in DOMAIN s : s[i] # sep THEN <<s>>
    ELSE LET i == CHOOSE k \in DOMAIN s :
                      s[k] = sep /\ \A j \in 1..(k - 1) : s[j] # sep
         IN <<SubSeq(s, 1, i - 1)>> \o Split(SubSeq(s, i + 1, Len(s)), sep)

----------------------------------------------------------------------------
(* Python values *)

StrV(s) == [t |-> "str", s |-> s]
IntV(n) == [t |-> "int", n |-> n]
DictV(f) == [t |-> "dict", d |-> f]
ListV(l) == [t |-> "list", l |-> l]
NoneV == [t |-> "NoneType"]

\* str(value) and '{}'.format(value) of a scalar
PyStr(value) ==
    CASE value.t = "str" -> value.s
      [] value.t = "int" -> FormatInt(value.n)
      [] value.t = "NoneType" -> <<"N","o","n","e">>

----------------------------------------------------------------------------
(* Tokenizer: oppy/oplex.py *)

t_ignore == {" ", "\t"}

NameClass == Letter \cup {"."}

StringClass == Letter \cup Digit \cup {"-", " ", "*", ":", "/", "."}

\* the single-character rules t_AND, t_OR, t_EQUALS, t_LPAREN, t_RPAREN
Punctuation ==
    ("&" :> "AND") @@ ("|" :> "OR") @@ ("=" :> "EQUALS")
        @@ ("(" :> "LPAREN") @@ (")" :> "RPAREN")

Token(type, value) == [type |-> type, value |-> value]

\* where the longest run of characters of class C that starts at i ends:
\* the first index past it
RECURSIVE RunEnd(_, _, _)
RunEnd(s, i, C) ==
    IF i <= Len(s) /\ s[i] \in C THEN RunEnd(s, i + 1, C) ELSE i

\* t_STRING's pattern "[a-zA-Z0-9\- \*:/\.]+" matches at i: a quote, one or
\* more characters of the class, a quote
StringMatches(s, i) ==
    /\ s[i] = "\""
    /\ LET j == RunEnd(s, i + 1, StringClass)
       IN j > i + 1 /\ j <= Len(s) /\ s[j] = "\""

\* The scan of lex.token() from position i on, to the end of the input:
\* the tokens returned, and the characters t_error reported, in order.
RECURSIVE LexFrom(_, _)
LexFrom(s, i) ==
    IF i > Len(s) THEN [tokens |-> <<>>, illegal |-> <<>>]
    ELSE IF s[i] \in t_ignore THEN LexFrom(s, i + 1)
    ELSE IF s[i] \in Digit THEN
        \* t_NUMBER: \d+, the value converted by int()
        LET j == RunEnd(s, i, Digit)
            rest == LexFrom(s, j)
        IN [rest EXCEPT !.tokens =
               <<Token("NUMBER", IntV(ParseInt(SubSeq(s, i, j - 1))))>> \o @]
    ELSE IF StringMatches(s, i) THEN
        \* t_STRING: the quotes stripped
        LET j == RunEnd(s, i + 1, StringClass)
            rest == LexFrom(s, j + 1)
        IN [rest EXCEPT !.tokens =
               <<Token("STRING", StrV(Strip(SubSeq(s, i, j), "\"")))>> \o @]
    ELSE IF s[i] = "\n" THEN
        \* t_newline: \n+ counts lines and returns no token
        LexFrom(s, RunEnd(s, i, {"\n"}))
    ELSE IF s[i] \in NameClass THEN
        \* t_NAME: [a-zA-Z\.]+
        LET j == RunEnd(s, i, NameClass)
            rest == LexFrom(s, j)
        IN [rest EXCEPT !.tokens =
               <<Token("NAME", StrV(SubSeq(s, i, j - 1)))>> \o @]
    ELSE IF s[i] \in DOMAIN Punctuation THEN
        LET rest == LexFrom(s, i + 1)
        IN [rest EXCEPT !.tokens =
               <<Token(Punctuation[s[i]], StrV(<<s[i]>>))>> \o @]
    ELSE
        \* t_error: report the character, skip(1)
        LET rest == LexFrom(s, i + 1)
        IN [rest EXCEPT !.illegal = <<s[i]>> \o @]

Lex(s) == LexFrom(s, 1)

\* The rule of the lexer's master pattern that matches at position i, and
\* the first index past the match.  The rules are tried in ply's order:
\* the function rules as written (t_NUMBER, t_STRING, t_newline), then the
\* string rules (t_NAME, then the single characters).
RuleAt(s, i) ==
    IF s[i] \in Digit THEN [rule |-> "NUMBER", end |-> RunEnd(s, i, Digit)]
    ELSE IF StringMatches(s, i)
         THEN [rule |-> "STRING", end |-> RunEnd(s, i + 1, StringClass) + 1]
    ELSE IF s[i] = "\n" THEN [rule |-> "newline", end |-> RunEnd(s, i, {"\n"})]
    ELSE IF s[i] \in NameClass
         THEN [rule |-> "NAME", end |-> RunEnd(s, i, NameClass)]
    ELSE IF s[i] \in DOMAIN Punctuation
         THEN [rule |-> Punctuation[s[i]], end |-> i + 1]
    ELSE [rule |-> "none", end |-> i]

\* the token a rule returns for the text it matched: t_NUMBER converts it
\* with int(), t_STRING strips the quotes
TokenOf(rule, text) ==
    CASE rule = "NUMBER" -> Token("NUMBER", IntV(ParseInt(text)))
      [] rule = "STRING" -> Token("STRING", StrV(Strip(text, "\"")))
      [] OTHER -> Token(rule, StrV(text))

\* no lexer: none has been given an input
NoLexer == [lexdata |-> <<>>, lexpos |-> 1, tokens |-> <<>>, illegal |-> <<>>]

\* OpTqlLexer.input: the lexer at the start of _input.  lexpos is the index
\* of the next character, counted from 1; tokens are the tokens returned so
\* far; illegal holds what t_error was called with, the position and the
\* character it printed
OpTqlLexer_input(_input) ==
    [lexdata |-> _input, lexpos |-> 1, tokens |-> <<>>, illegal |-> <<>>]

\* t_error as it would be without its t.lexer.skip(1)
t_error_noskip(lx) ==
    [lx EXCEPT !.illegal =
         Append(@, [lexpos |-> lx.lexpos, value |-> lx.lexdata[lx.lexpos]])]

\* t_error: print the character at the lexer's position, skip(1)
t_error(lx) ==
    [lx EXCEPT !.illegal =
         Append(@, [lexpos |-> lx.lexpos, value |-> lx.lexdata[lx.lexpos]]),
               !.lexpos = @ + 1]

----------------------------------------------------------------------------
(* AST: opparser.py *)

OpTqlAst(expression) == [class |-> "OpTqlAst", expression |-> expression]

\* the pattern as it would be with the '*' of the literal left as it is
AnchoredPattern_noglob(value) == <<"^">> \o PyStr(value) \o <<"$">>

\* OpFilter.__init__ and OpFuzzy.__init__: the literal made a pattern
AnchoredPattern(value) ==
    <<"^">> \o Replace(PyStr(value), "*", <<".", "*">>) \o <<"$">>

OpFilter(name, value) ==
    [class |-> "OpFilter", name |-> name.s, value |-> AnchoredPattern(value)]

OpFuzzy(value) == [class |-> "OpFuzzy", value |-> AnchoredPattern(value)]

OpUnionOperator(left_expression, right_expression) ==
    [class |-> "OpUnionOperator",
     left_expression |-> left_expression,
     right_expression |-> right_expression]

OpIntersectionOperator(left_expression, right_expression) ==
    [class |-> "OpIntersectionOperator",
     left_expression |-> left_expression,
     right_expression |-> right_expression]

----------------------------------------------------------------------------
(* Parser: opparser.py, the LALR(1) parser ply.yacc builds from the grammar *)
(* of the p_ methods and from precedence                                    *)

\* precedence as it would be with AND on a level of its own above OR
precedence_conventional ==
    <<[assoc |-> "left", tokens |-> {"OR"}],
      [assoc |-> "left", tokens |-> {"AND"}]>>

\* one level: AND and OR together, left-associative
precedence == <<[assoc |-> "left", tokens |-> {"OR", "AND"}]>>

\* a token's (associativity, level); a token of no level has level 0
Prec(tok) ==
    IF \E i \in DOMAIN precedence : tok \in precedence[i].tokens
    THEN LET i == CHOOSE k \in DOMAIN precedence : tok \in precedence[k].tokens
         IN [assoc |-> precedence[i].assoc, level |-> i]
    ELSE [assoc |-> "right", level |-> 0]

\* The table entry where 'expr op expr' is on the stack and the next token
\* la is an operator: reduce the rule (whose precedence is op's) or shift la.
ResolveShiftReduce(op, la) ==
    LET s == Prec(la)
        r == Prec(op)
    IN IF s.level < r.level \/ (s.level = r.level /\ r.assoc = "left")
       THEN "reduce"
       ELSE IF s.level = r.level /\ r.assoc = "nonassoc" THEN "error"
       ELSE "shift"

EndToken == Token("$end", NoneV)

StartsExpr == {"STRING", "NAME", "NUMBER", "LPAREN"}

\* the type of the k-th symbol from the top of the stack ("" below the bottom)
TopType(stack, k) ==
    IF Len(stack) >= k THEN stack[Len(stack) - k + 1].type ELSE ""

\* The parsing table: what the parser does with this stack and next token
\* la.  The symbols on top of the stack tell the state.  Where a literal or
\* a closing parenthesis is on top the rule is reduced whatever la is: a la
\* the table has no entry for is then refused in the state the reduction
\* leads to, by the same p_error(la).
ParserAction(stack, la) ==
    LET top == TopType(stack, 1)
        under == TopType(stack, 2)
    IN CASE top \in {"", "LPAREN", "OR", "AND"} ->
              IF la \in StartsExpr THEN "shift" ELSE "error"
         [] top \in {"STRING", "NUMBER"} ->
              IF under = "EQUALS" THEN "p_expr_pair" ELSE "p_expr_fuzzy"
         [] top = "NAME" ->
              IF la = "EQUALS" THEN "shift"
              ELSE IF la \in {"$end", "OR", "AND", "RPAREN"} THEN "p_expr_fuzzy"
              ELSE "error"
         [] top = "EQUALS" ->
              IF la \in {"STRING", "NUMBER"} THEN "shift" ELSE "error"
         [] top = "RPAREN" -> "p_expr_par"
         [] top = "expr" /\ under \in {"OR", "AND"} ->
              IF la \in {"OR", "AND"}
              THEN (IF ResolveShiftReduce(under, la) = "reduce"
                    THEN "p_expr_binary"
                    ELSE ResolveShiftReduce(under, la))
              ELSE IF la \in {"$end", "RPAREN"} THEN "p_expr_binary"
              ELSE "error"
         [] top = "expr" /\ under = "LPAREN" ->
              IF la \in {"RPAREN", "OR", "AND"} THEN "shift" ELSE "error"
         [] top = "expr" /\ under = "" ->
              IF la = "$end" THEN "p_input"
              ELSE IF la \in {"OR", "AND"} THEN "shift"
              ELSE "error"
         [] top = "input" ->
              IF la = "$end" THEN "accept" ELSE "error"

\* how many symbols each rule takes off the stack
RuleLength ==
    [p_input |-> 1, p_expr_fuzzy |-> 1, p_expr_pair |-> 3,
     p_expr_par |-> 3, p_expr_binary |-> 3]

\* the p_ methods: p is the values of the rule's right-hand side, p[1]..
p_input(p) == IF Len(p) = 0 THEN OpTqlAst(NoneV) ELSE OpTqlAst(p[1])

p_expr_fuzzy(p) == OpFuzzy(p[1])

p_expr_pair(p) == OpFilter(p[1], p[3])

p_expr_par(p) == p[2]

p_expr_binary(p) ==
    IF p[2] = StrV(<<"|">>) THEN OpUnionOperator(p[1], p[3])
    ELSE IF p[2] = StrV(<<"&">>) THEN OpIntersectionOperator(p[1], p[3])
    ELSE NoneV

Reduce(rule, p) ==
    CASE rule = "p_input" -> Token("input", p_input(p))
      [] rule = "p_expr_fuzzy" -> Token("expr", p_expr_fuzzy(p))
      [] rule = "p_expr_pair" -> Token("expr", p_expr_pair(p))
      [] rule = "p_expr_par" -> Token("expr", p_expr_par(p))
      [] rule = "p_expr_binary" -> Token("expr", p_expr_binary(p))

\* p_error: the message names the token's value, or EOL at the end of input
p_error(token) ==
    [exc |-> "ParsingError",
     val |-> IF token.type = "$end" THEN <<"E", "O", "L">> ELSE PyStr(token.value)]

\* yacc's loop over a stack of symbols and the tokens still to read
RECURSIVE ParseLoop(_, _)
ParseLoop(stack, tokens) ==
    LET la == IF tokens = <<>> THEN EndToken ELSE Head(tokens)
        act == ParserAction(stack, la.type)
    IN CASE act = "accept" ->
              [exc |-> "none", val |-> stack[Len(stack)].value]
         [] act = "error" -> p_error(la)
         [] act = "shift" -> ParseLoop(Append(stack, la), Tail(tokens))
         [] OTHER ->
              LET n == RuleLength[act]
                  p == [i \in 1..n |-> stack[Len(stack) - n + i].value]
              IN ParseLoop(
                     Append(SubSeq(stack, 1, Len(stack) - n), Reduce(act, p)),
                     tokens)

\* OpTqlParser(_input).parse()
Parse(input) == ParseLoop(<<>>, Lex(input).tokens)

----------------------------------------------------------------------------
(* Outcomes of a call: a value returned, or an exception raised *)

Returns(val) == [exc |-> "none", val |-> val]

\* raise exc(arg)
Raises(exc, arg) == [exc |-> exc, val |-> arg]

----------------------------------------------------------------------------
(* re.match on the patterns the leaves build: opparser.py *)

\* The compiled pattern: ^ and $ are assertions, . is any character but a
\* newline, every other character is itself, and * repeats the item before.
RECURSIVE ReCompile(_)
ReCompile(pattern) ==
    IF pattern = <<>> THEN <<>>
    ELSE LET c == Head(pattern)
             starred == Len(pattern) >= 2 /\ pattern[2] = "*"
             item == CASE c = "^" -> [kind |-> "bol", ch |-> c, star |-> FALSE]
                       [] c = "$" -> [kind |-> "eol", ch |-> c, star |-> FALSE]
                       [] c = "." -> [kind |-> "any", ch |-> c, star |-> starred]
                       [] OTHER -> [kind |-> "lit", ch |-> c, star |-> starred]
         IN <<item>> \o ReCompile(SubSeq(pattern, IF item.star THEN 3 ELSE 2,
                                         Len(pattern)))

ItemMatches(item, c, ignorecase) ==
    IF item.kind = "any" THEN c # "\n"
    ELSE IF ignorecase THEN Lower(item.ch) = Lower(c)
    ELSE item.ch = c

\* items k.. match text from position i on
RECURSIVE ReMatchFrom(_, _, _, _, _)
ReMatchFrom(items, k, text, i, ignorecase) ==
    IF k > Len(items) THEN TRUE
    ELSE LET item == items[k]
         IN CASE item.kind = "bol" ->
                   i = 1 /\ ReMatchFrom(items, k + 1, text, i, ignorecase)
              [] item.kind = "eol" ->
                   /\ \/ i = Len(text) + 1
                      \/ i = Len(text) /\ text[i] = "\n"
                   /\ ReMatchFrom(items, k + 1, text, i, ignorecase)
              [] item.star ->
                   \E j \in i..(Len(text) + 1) :
                       /\ \A m \in i..(j - 1) :
                              ItemMatches(item, text[m], ignorecase)
                       /\ ReMatchFrom(items, k + 1, text, j, ignorecase)
              [] OTHER ->
                   /\ i <= Len(text)
                   /\ ItemMatches(item, text[i], ignorecase)
                   /\ ReMatchFrom(items, k + 1, text, i + 1, ignorecase)

\* re.match(pattern, text, flags) is not None
ReMatch(pattern, text, ignorecase) ==
    ReMatchFrom(ReCompile(pattern), 1, text, 1, ignorecase)

\* OpFilter.match: re.match takes the value as it is, and takes only text
OpFilter_match(self, value) ==
    IF value.t = "NoneType" THEN Returns(FALSE)
    ELSE IF value.t # "str" THEN Raises("TypeError", NoneV)
    ELSE Returns(ReMatch(self.value, value.s, FALSE))

\* OpFuzzy.match as it would be without re.IGNORECASE
OpFuzzy_match_cased(self, value) ==
    IF value.t = "NoneType" THEN Returns(FALSE)
    ELSE Returns(ReMatch(self.value, PyStr(value), FALSE))

\* OpFuzzy.match: the value formatted to text, letter case ignored
OpFuzzy_match(self, value) ==
    IF value.t = "NoneType" THEN Returns(FALSE)
    ELSE Returns(ReMatch(self.value, PyStr(value), TRUE))

\* cmp_func(value), cmp_func being the bound method leaf.match
Match(leaf, value) ==
    IF leaf.class = "OpFilter" THEN OpFilter_match(leaf, value)
    ELSE OpFuzzy_match(leaf, value)

----------------------------------------------------------------------------
(* OpResponse: oppy/opdb.py.  A collection is its _objects list. *)

\* a call's result that is an OpResponse: ref tells which object it is,
\* "new" for one the call created
Response(ref, objs) == [kind |-> "OpResponse", ref |-> ref, objects |-> objs]

NoResponse == [kind |-> "NoneType", ref |-> "None", objects |-> <<>>]

\* __and__, __or__, filter and fuzzy as they would be were the result built
\* in self: response = self
OpResponse_new_inplace(self) == self

\* response = OpResponse() in __and__ and __or__, matching = OpResponse() in
\* filter and fuzzy: the object a method of self builds its result in is a
\* new one
OpResponse_new(self) == "new"

\* the objects of the collection called name after a call that ended in out:
\* the objects of the result if the result was built in that collection,
\* and else the objects cur it had before
Stored(name, cur, out) ==
    IF out.exc = "none" /\ out.val.kind = "OpResponse" /\ out.val.ref = name
    THEN out.val.objects
    ELSE cur

\* OpResponse.__init__(copy_from): a new list of copy_from's items
OpResponse_init(copy_from) == [i \in 1..Len(copy_from) |-> copy_from[i]]

\* OpResponse.__contains__
Contains(objs, obj) == \E i \in DOMAIN objs : objs[i] = obj

\* OpResponse.add
add(objs, obj) == IF ~Contains(objs, obj) THEN Append(objs, obj) ELSE objs

\* dict.copy(): a new mapping with the same keys and values
DictCopy(obj) == DictV([k \in DOMAIN obj.d |-> obj.d[k]])

\* OpResponse.__and__: the loop from self's i-th object on
RECURSIVE AndLoop(_, _, _, _)
AndLoop(self, other, i, response) ==
    IF i > Len(self) THEN response
    ELSE AndLoop(self, other, i + 1,
                 IF Contains(other, self[i])
                 THEN add(response, DictCopy(self[i]))
                 ELSE response)

OpResponse_and(self, other) == AndLoop(self, other, 1, <<>>)

\* OpResponse.__or__: the first loop, over other
RECURSIVE OrLoopOther(_, _, _, _)
OrLoopOther(self, other, i, response) ==
    IF i > Len(other) THEN response
    ELSE OrLoopOther(self, other, i + 1,
                     add(response,
                         IF Contains(self, other[i])
                         THEN DictCopy(other[i])
                         ELSE other[i]))

\* OpResponse.__or__: the second loop, over self
RECURSIVE OrLoopSelf(_, _, _)
OrLoopSelf(self, i, response) ==
    IF i > Len(self) THEN response
    ELSE OrLoopSelf(self, i + 1,
                    IF ~Contains(response, self[i])
                    THEN add(response, self[i])
                    ELSE response)

\* __or__ as it would be with self's objects first and other's new ones after
OpResponse_or_selffirst(self, other) ==
    OrLoopSelf(other, 1, OrLoopOther(other, self, 1, <<>>))

OpResponse_or(self, other) ==
    OrLoopSelf(self, 1, OrLoopOther(self, other, 1, <<>>))

\* d[key] for a text key
Subscript(d, key) ==
    IF d.t = "dict"
    THEN (IF key \in DOMAIN d.d THEN Returns(d.d[key])
          ELSE Raises("KeyError", NoneV))
    ELSE Raises("TypeError", NoneV)

\* OpResponse._find_value_by_key: the loop over tag.split('.')
RECURSIVE FindByKeys(_, _)
FindByKeys(d, keys) ==
    IF keys = <<>> THEN Returns(d)
    ELSE LET step == Subscript(d, Head(keys))
         IN IF step.exc # "none" THEN step ELSE FindByKeys(step.val, Tail(keys))

find_value_by_key(obj, tag) == FindByKeys(obj, Split(tag, "."))

\* OpResponse._find_value, cmp_func being an OpFuzzy's match: container is
\* the dict whose values(), or the list whose items, are gone through
RECURSIVE find_value(_, _)
find_value(container, leaf) ==
    LET Visit(val) ==
            CASE val.t \in {"int", "str"} -> Match(leaf, val).val
              [] val.t \in {"dict", "list"} -> find_value(val, leaf)
              [] OTHER -> FALSE
    IN IF container.t = "dict"
       THEN \E k \in DOMAIN container.d : Visit(container.d[k])
       ELSE \E i \in DOMAIN container.l : Visit(container.l[i])

\* OpResponse.filter: the loop from self's i-th object on
RECURSIVE FilterLoop(_, _, _, _)
FilterLoop(self, leaf, i, matching) ==
    IF i > Len(self) THEN Returns(matching)
    ELSE LET tag_value == find_value_by_key(self[i], leaf.name)
         IN IF tag_value.exc = "KeyError"
            THEN FilterLoop(self, leaf, i + 1, matching)
            ELSE IF tag_value.exc # "none" THEN tag_value
            ELSE LET m == Match(leaf, tag_value.val)
                 IN IF m.exc # "none" THEN m
                    ELSE FilterLoop(self, leaf, i + 1,
                                    IF m.val THEN add(matching, self[i])
                                    ELSE matching)

OpResponse_filter(self, leaf) == FilterLoop(self, leaf, 1, <<>>)

\* OpResponse.fuzzy: the loop from self's i-th object on
RECURSIVE FuzzyLoop(_, _, _, _)
FuzzyLoop(self, leaf, i, matching) ==
    IF i > Len(self) THEN Returns(matching)
    ELSE FuzzyLoop(self, leaf, i + 1,
                   IF find_value(self[i], leaf) THEN add(matching, self[i])
                   ELSE matching)

OpResponse_fuzzy(self, leaf) == FuzzyLoop(self, leaf, 1, <<>>)

----------------------------------------------------------------------------
(* OpDatabase: oppy/opdb.py *)

\* what left | right or left & right does when an operand is not an
\* OpResponse: None has no such operator and cannot be iterated
BothResponses(left, right) ==
    left.kind = "OpResponse" /\ right.kind = "OpResponse"

\* the class of an expression; None has none of the four
ClassOf(expression) ==
    IF "class" \in DOMAIN expression THEN expression.class ELSE "NoneType"

\* OpDatabase._evaluate_expression, with _evaluate_filter, _evaluate_fuzzy,
\* _evaluate_union and _evaluate_intersection; an expression of no known
\* class falls off the end of the method, which returns None.  "objects" is
\* the OpResponse _evaluate_ast made of the database's list, objs its objects
RECURSIVE evaluate_expression(_, _)
evaluate_expression(objs, expression) ==
    CASE ClassOf(expression) = "OpFilter" ->
           LET r == OpResponse_filter(objs, expression)
           IN IF r.exc # "none" THEN r
              ELSE Returns(Response(OpResponse_new("objects"), r.val))
      [] ClassOf(expression) = "OpFuzzy" ->
           Returns(Response(OpResponse_new("objects"),
                            OpResponse_fuzzy(objs, expression).val))
      [] ClassOf(expression) \in {"OpUnionOperator", "OpIntersectionOperator"} ->
           LET left == evaluate_expression(objs, expression.left_expression)
               right == evaluate_expression(objs, expression.right_expression)
           IN IF left.exc # "none" THEN left
              ELSE IF right.exc # "none" THEN right
              ELSE IF ~BothResponses(left.val, right.val)
                   THEN Raises("TypeError", NoneV)
              ELSE IF expression.class = "OpUnionOperator"
                   THEN Returns(Response(OpResponse_new(left.val.ref),
                            OpResponse_or(left.val.objects, right.val.objects)))
              ELSE Returns(Response(OpResponse_new(left.val.ref),
                       OpResponse_and(left.val.objects, right.val.objects)))
      [] OTHER -> Returns(NoResponse)

\* OpDatabase._evaluate_ast
evaluate_ast(db, ast) ==
    evaluate_expression(OpResponse_init(db), ast.expression)

\* OpDatabase.raw_query: tql is text, or None
raw_query(db, tql) ==
    IF tql.t = "str"
    THEN LET parsed == Parse(tql.s)
         IN IF parsed.exc # "none" THEN parsed ELSE evaluate_ast(db, parsed.val)
    ELSE Returns(Response("new", OpResponse_init(db)))

----------------------------------------------------------------------------
(* The records, databases and queries the model runs on *)

T_title == <<"t", "i", "t", "l", "e">>
T_overview == <<"o", "v", "e", "r", "v", "i", "e", "w">>
T_tags == <<"t", "a", "g", "s">>
T_Github == <<"G", "i", "t", "h", "u", "b">>
T_Gitlab == <<"G", "i", "t", "l", "a", "b">>
T_Email == <<"E", "m", "a", "i", "l">>
T_quote == <<"\"">>

Github == DictV(T_title :> StrV(T_Github))
Gitlab == DictV(T_title :> StrV(T_Gitlab))
Email == DictV(T_title :> StrV(T_Email))
\* {"title": "Five", "n": 5} and {"title": "Cinq", "n": "5"}
Five == DictV((T_title :> StrV(<<"F", "i", "v", "e">>)) @@ (<<"n">> :> IntV(5)))
Cinq == DictV((T_title :> StrV(<<"C", "i", "n", "q">>))
                  @@ (<<"n">> :> StrV(<<"5">>)))
\* {"overview": {"title": "Gitlab", "tags": ["git", 5]}}
Nested ==
    DictV(T_overview :>
              DictV((T_title :> StrV(T_Gitlab))
                        @@ (T_tags :> ListV(<<StrV(<<"g", "i", "t">>), IntV(5)>>))))

Databases ==
    { <<Github, Gitlab, Email>>,
      <<Cinq, Five>>,
      <<Cinq>>,
      <<Nested, Github>>,
      <<Email, Github, Email>>,
      <<>> }

Quoted(text) == T_quote \o text \o T_quote

\* the leaves the grouping queries are made of: the text, and the leaf it is
Leaves ==
    { [text |-> <<"g", "i", "t">>,
       ast |-> OpFuzzy(StrV(<<"g", "i", "t">>))],
      [text |-> Quoted(<<"E", "*">>),
       ast |-> OpFuzzy(StrV(<<"E", "*">>))],
      [text |-> <<"5">>,
       ast |-> OpFuzzy(IntV(5))],
      [text |-> T_title \o <<"=">> \o Quoted(<<"G", "i", "t", "*">>),
       ast |-> OpFilter(StrV(T_title), StrV(<<"G", "i", "t", "*">>))],
      [text |-> <<"n", "=", "5">>,
       ast |-> OpFilter(StrV(<<"n">>), IntV(5))] }

Operators == {"&", "|"}

\* x op1 y op2 z
Chain(x, op1, y, op2, z) == x.text \o <<op1>> \o y.text \o <<op2>> \o z.text

ChainQueries ==
    { Chain(x, op1, y, op2, z) :
          x \in Leaves, y \in Leaves, z \in Leaves,
          op1 \in Operators, op2 \in Operators }

Q_empty == <<>>
Q_title_Git_bare == T_title \o <<"=", "G", "i", "t", "*">>
Q_title_Git == T_title \o <<"=">> \o Quoted(<<"G", "i", "t", "*">>)
Q_git_bare == <<"g", "i", "t">>
Q_git_star == Quoted(<<"g", "i", "t", "*">>)
Q_n_5 == <<"n", "=", "5">>
Q_title_x == T_title \o <<".", "x", "=">> \o Quoted(<<"a">>)
Q_tags_x == T_overview \o <<".">> \o T_tags \o <<".", "x", "=">> \o Quoted(<<"a">>)
Q_overview_title == T_overview \o <<".">> \o T_title \o <<"=">> \o Quoted(T_Gitlab)
Q_absent == <<"u", "u", "i", "d", "=">> \o Quoted(<<"a">>)
Q_union == Q_title_Git \o <<"|">> \o T_title \o <<"=">> \o Quoted(T_Email)
Q_paren == <<"g", "i", "t", "|", "(">> \o Quoted(<<"E", "*">>) \o <<"&", "5", ")">>
Q_unclosed == <<"(", "g", "i", "t">>

OtherQueries ==
    { Q_empty, Q_title_Git_bare, Q_title_Git, Q_git_bare, Q_git_star, Q_n_5,
      Q_title_x, Q_tags_x, Q_overview_title, Q_absent, Q_union, Q_paren,
      Q_unclosed }

Queries == ChainQueries \cup OtherQueries

\* the ASTs _evaluate_ast is called on directly: OpTqlAst(), and a leaf
Asts ==
    { OpTqlAst(NoneV),
      OpTqlAst(OpFuzzy(StrV(<<"g", "i", "t", "*">>))),
      OpTqlAst(OpFilter(StrV(T_title), StrV(T_Email))) }

----------------------------------------------------------------------------
(* The database and its callers *)

NoCall ==
    [op |-> "none", arg |-> NoneV, self |-> "", other |-> "",
     out |-> Returns(NoResponse)]

Call(op, arg, out) ==
    [op |-> op, arg |-> arg, self |-> "", other |-> "", out |-> out]

Init ==
    /\ objects \in Databases
    /\ A = <<>>
    /\ B = <<>>
    /\ pc = "idle"
    /\ ret = NoCall
    /\ lexer = NoLexer

\* OpTqlParser(input).parse()
ParseCall(input) ==
    /\ pc = "idle"
    /\ pc' = "returned"
    /\ ret' = Call("parse", StrV(input), Parse(input))
    /\ UNCHANGED <<objects, A, B, lexer>>

\* OpDatabase(objects).raw_query(tql)
RawQuery(tql) ==
    /\ pc = "idle"
    /\ pc' = "returned"
    /\ ret' = Call("raw_query", tql, raw_query(objects, tql))
    /\ objects' = Stored("_objects", objects, ret'.out)
    /\ UNCHANGED <<A, B, lexer>>

\* OpDatabase(objects)._evaluate_ast(ast)
EvaluateAst(ast) ==
    /\ pc = "idle"
    /\ pc' = "returned"
    /\ ret' = Call("evaluate_ast", ast, evaluate_ast(objects, ast))
    /\ objects' = Stored("_objects", objects, ret'.out)
    /\ UNCHANGED <<A, B, lexer>>

\* the caller is done with what the call returned or raised
Resume ==
    /\ pc = "returned"
    /\ pc' = "idle"
    /\ ret' = NoCall
    /\ UNCHANGED <<objects, A, B, lexer>>

Next ==
    \/ \E input \in Queries : ParseCall(input)
    \/ \E tql \in {StrV(q) : q \in Queries} \cup {NoneV} : RawQuery(tql)
    \/ \E ast \in Asts : EvaluateAst(ast)
    \/ Resume

Spec == Init /\ [][Next]_vars

----------------------------------------------------------------------------
(* Properties of the parser and of the database's queries, under Spec *)

D_titles == <<Github, Gitlab, Email>>

Binary(op, left, right) ==
    IF op = "|" THEN OpUnionOperator(left, right)
    ELSE OpIntersectionOperator(left, right)

Leaf(text) == CHOOSE x \in Leaves : x.text = text

\* the call that ended is op(arg)
Ended(op, arg) == pc = "returned" /\ ret.op = op /\ ret.arg = arg

\* the call that ended returned an OpResponse holding exactly objs
ReturnedObjects(objs) ==
    /\ ret.out.exc = "none"
    /\ ret.out.val.kind = "OpResponse"
    /\ ret.out.val.objects = objs

\* C1: for any three leaves x, y, z and any two operators op1, op2 of
\* {&, |}, parsing 'x op1 y op2 z' returns the AST (x op1 y) op2 z: AND and
\* OR share one precedence level and group left to right.
C1_LeftToRightGrouping ==
    \A x \in Leaves, y \in Leaves, z \in Leaves :
        \A op1 \in Operators, op2 \in Operators :
            Ended("parse", StrV(Chain(x, op1, y, op2, z))) =>
                /\ ret.out.exc = "none"
                /\ ret.out.val =
                       OpTqlAst(Binary(op2, Binary(op1, x.ast, y.ast), z.ast))

\* git|"E*"&5 was parsed, and its root is the intersection
C1_Witness ==
    /\ Ended("parse",
             StrV(Chain(Leaf(<<"g", "i", "t">>), "|", Leaf(Quoted(<<"E", "*">>)),
                        "&", Leaf(<<"5">>))))
    /\ ret.out.exc = "none"
    /\ ret.out.val.expression.class = "OpIntersectionOperator"

\* C2: parsing the empty query returns an AST with no expression instead
\* of raising ParsingError, and raw_query('') returns every record of the
\* database in the original order.
C2_EmptyQueryMatchesAll ==
    /\ Ended("parse", StrV(Q_empty)) =>
           ret.out.exc = "none" /\ ret.out.val = OpTqlAst(NoneV)
    /\ Ended("raw_query", StrV(Q_empty)) => ReturnedObjects(objects)

\* result holds every record of C exactly once, in C's order
EveryRecordOnceInOrder(result, C) ==
    /\ \A i \in DOMAIN C :
           Cardinality({j \in DOMAIN result : result[j] = C[i]}) = 1
    /\ \A j \in DOMAIN result : Contains(C, result[j])
    /\ \A j \in DOMAIN result, k \in DOMAIN result :
           j < k =>
               \E a \in DOMAIN C, b \in DOMAIN C :
                   a < b /\ C[a] = result[j] /\ C[b] = result[k]

\* C3: evaluating an AST that carries no expression returns a new
\* collection (not None) that holds every record of the database's
\* collection exactly once, in the original order.
C3_NoExpressionReturnsAll ==
    Ended("evaluate_ast", OpTqlAst(NoneV)) =>
        /\ ret.out.exc = "none"
        /\ ret.out.val.kind = "OpResponse"
        /\ ret.out.val.ref = "new"
        /\ EveryRecordOnceInOrder(ret.out.val.objects, objects)

\* the query is text that parses to a single Filter leaf
IsFilterQuery(tql) ==
    /\ tql.t = "str"
    /\ Parse(tql.s).exc = "none"
    /\ ClassOf(Parse(tql.s).val.expression) = "OpFilter"

\* the dotted path, key by key, leads through mappings to a value
RECURSIVE PathResolves(_, _)
PathResolves(d, keys) ==
    \/ keys = <<>>
    \/ /\ d.t = "dict"
       /\ Head(keys) \in DOMAIN d.d
       /\ PathResolves(d.d[Head(keys)], Tail(keys))

RECURSIVE PathValue(_, _)
PathValue(d, keys) ==
    IF keys = <<>> THEN d ELSE PathValue(d.d[Head(keys)], Tail(keys))

\* C6: evaluating a Filter leaf never raises because of a record's shape: a
\* record in which the path cannot be resolved (a key is missing, or a
\* scalar or a list is met before the last key) is left out, and the result
\* is empty when the path is absent in all records.  Stated where every
\* value the path does lead to is text.
C6_FilterNeverRaisesOnShape ==
    (pc = "returned" /\ ret.op = "raw_query" /\ IsFilterQuery(ret.arg)) =>
        LET keys == Split(Parse(ret.arg.s).val.expression.name, ".")
        IN (\A i \in DOMAIN objects :
                PathResolves(objects[i], keys) =>
                    PathValue(objects[i], keys).t = "str")
           => /\ ret.out.exc = "none"
              /\ ret.out.val.kind = "OpResponse"
              /\ \A j \in DOMAIN ret.out.val.objects :
                     PathResolves(ret.out.val.objects[j], keys)
              /\ (\A i \in DOMAIN objects : ~PathResolves(objects[i], keys))
                     => ret.out.val.objects = <<>>

\* the record has a value at n, text or number, that reads "5"
ReadsFive(rec) ==
    /\ <<"n">> \in DOMAIN rec.d
    /\ rec.d[<<"n">>].t \in {"str", "int"}
    /\ PyStr(rec.d[<<"n">>]) = <<"5">>

\* C7: a Filter leaf compares the field's value by its string form: n=5
\* includes a record whose n reads "5", stored as the text "5" or as the
\* number 5, and the evaluation ends without error in both cases.
C7_NumericLiteralByStringForm ==
    Ended("raw_query", StrV(Q_n_5)) =>
        ReturnedObjects(SelectSeq(objects, ReadsFive))

\* C8, as stated: over Github, Gitlab, Email the query title=Git* (no
\* quotes) is accepted and returns Github, Gitlab in that order.
C8_BareLiteralAccepted ==
    (objects = D_titles /\ Ended("raw_query", StrV(Q_title_Git_bare))) =>
        ReturnedObjects(<<Github, Gitlab>>)

\* C8, amended: over Github, Gitlab, Email the query title="Git*" (the
\* literal in double quotes) returns Github, Gitlab in that order; the
\* query title=Git* raises ParsingError near Git.
C8_QuotedLiteralFilters ==
    /\ (objects = D_titles /\ Ended("raw_query", StrV(Q_title_Git))) =>
           ReturnedObjects(<<Github, Gitlab>>)
    /\ (objects = D_titles /\ Ended("raw_query", StrV(Q_title_Git_bare))) =>
           ret.out.exc = "ParsingError" /\ ret.out.val = <<"G", "i", "t">>

C8_Witness ==
    /\ objects = D_titles
    /\ Ended("raw_query", StrV(Q_title_Git))
    /\ ReturnedObjects(<<Github, Gitlab>>)

\* C9, as stated: over Github, Gitlab, Email the bare fuzzy query git
\* returns Github, Gitlab in that order.
C9_BareFuzzyMatchesPrefix ==
    (objects = D_titles /\ Ended("raw_query", StrV(Q_git_bare))) =>
        ReturnedObjects(<<Github, Gitlab>>)

\* C9, amended: over Github, Gitlab, Email the fuzzy query "git*" returns
\* Github, Gitlab in that order, whatever the letter case; the bare query
\* git, whose pattern must match a whole value, returns no record.
C9_FuzzyWildcardIgnoresCase ==
    /\ (objects = D_titles /\ Ended("raw_query", StrV(Q_git_star))) =>
           ReturnedObjects(<<Github, Gitlab>>)
    /\ (objects = D_titles /\ Ended("raw_query", StrV(Q_git_bare))) =>
           ReturnedObjects(<<>>)

C9_Witness ==
    /\ objects = D_titles
    /\ Ended("raw_query", StrV(Q_git_star))
    /\ ReturnedObjects(<<Github, Gitlab>>)

----------------------------------------------------------------------------
(* Collections and their callers: a caller holds two OpResponse objects, A  *)
(* and B, builds them, adds to them and combines them                       *)

\* the longest list a collection is built from
MaxObjects == 2

ResponseRecords == {Github, Gitlab, Email}

\* the lists OpResponse(copy_from) is called on: repeats allowed
Lists == UNION {[1..k -> ResponseRecords] : k \in 0..MaxObjects}

FilterLeaves ==
    { OpFilter(StrV(T_title), StrV(<<"G", "i", "t", "*">>)),
      OpFilter(StrV(T_title), StrV(T_Email)) }

FuzzyLeaves == { OpFuzzy(StrV(<<"g", "i", "t", "*">>)) }

Held(name) == IF name = "A" THEN A ELSE B

Assign(name, objs) ==
    IF name = "A" THEN A' = objs /\ B' = B ELSE B' = objs /\ A' = A

\* a method of A called, other being B where the method takes one
Method(op, arg, out) ==
    [op |-> op, arg |-> arg, self |-> "A", other |-> "B", out |-> out]

InitResponse ==
    /\ objects = <<>>
    /\ A = OpResponse_init(<<>>)
    /\ B = OpResponse_init(<<>>)
    /\ pc = "idle"
    /\ ret = NoCall
    /\ lexer = NoLexer

\* name = OpResponse(copy_from)
Construct(name, copy_from) ==
    /\ pc = "idle"
    /\ Assign(name, OpResponse_init(copy_from))
    /\ UNCHANGED <<objects, pc, ret, lexer>>

\* name.add(obj)
Add(name, obj) ==
    /\ pc = "idle"
    /\ Assign(name, add(Held(name), obj))
    /\ UNCHANGED <<objects, pc, ret, lexer>>

\* A.copy()
Copy ==
    /\ pc = "idle"
    /\ pc' = "returned"
    /\ ret' = Method("copy", NoneV, Returns(Response("new", OpResponse_init(A))))
    /\ A' = Stored("A", A, ret'.out)
    /\ B' = Stored("B", B, ret'.out)
    /\ UNCHANGED <<objects, lexer>>

\* A & B
And ==
    /\ pc = "idle"
    /\ pc' = "returned"
    /\ ret' = Method("and", NoneV,
                     Returns(Response(OpResponse_new("A"), OpResponse_and(A, B))))
    /\ A' = Stored("A", A, ret'.out)
    /\ B' = Stored("B", B, ret'.out)
    /\ UNCHANGED <<objects, lexer>>

\* A | B
Or ==
    /\ pc = "idle"
    /\ pc' = "returned"
    /\ ret' = Method("or", NoneV,
                     Returns(Response(OpResponse_new("A"), OpResponse_or(A, B))))
    /\ A' = Stored("A", A, ret'.out)
    /\ B' = Stored("B", B, ret'.out)
    /\ UNCHANGED <<objects, lexer>>

\* A.filter(leaf.name, leaf.match)
Filter(leaf) ==
    /\ pc = "idle"
    /\ pc' = "returned"
    /\ LET r == OpResponse_filter(A, leaf)
       IN ret' = Method("filter", leaf,
                        IF r.exc # "none" THEN r
                        ELSE Returns(Response(OpResponse_new("A"), r.val)))
    /\ A' = Stored("A", A, ret'.out)
    /\ B' = Stored("B", B, ret'.out)
    /\ UNCHANGED <<objects, lexer>>

\* A.fuzzy(leaf.match)
Fuzzy(leaf) ==
    /\ pc = "idle"
    /\ pc' = "returned"
    /\ ret' = Method("fuzzy", leaf,
                     Returns(Response(OpResponse_new("A"),
                                      OpResponse_fuzzy(A, leaf).val)))
    /\ A' = Stored("A", A, ret'.out)
    /\ B' = Stored("B", B, ret'.out)
    /\ UNCHANGED <<objects, lexer>>

\* name = the collection the call returned
Keep(name) ==
    /\ pc = "returned"
    /\ ret.out.exc = "none"
    /\ ret.out.val.kind = "OpResponse"
    /\ Assign(name, ret.out.val.objects)
    /\ pc' = "idle"
    /\ ret' = NoCall
    /\ UNCHANGED <<objects, lexer>>

NextResponse ==
    \/ \E name \in {"A", "B"}, copy_from \in Lists : Construct(name, copy_from)
    \/ \E name \in {"A", "B"}, obj \in ResponseRecords : Add(name, obj)
    \/ Copy
    \/ And
    \/ Or
    \/ \E leaf \in FilterLeaves : Filter(leaf)
    \/ \E leaf \in FuzzyLeaves : Fuzzy(leaf)
    \/ \E name \in {"A", "B"} : Keep(name)
    \/ Resume

SpecResponse == InitResponse /\ [][NextResponse]_vars

----------------------------------------------------------------------------
(* Properties of the collections, under SpecResponse *)

NoDuplicates(objs) ==
    \A i \in DOMAIN objs, j \in DOMAIN objs : objs[i] = objs[j] => i = j

\* the objects of objs that are, or are not, in other, in objs's order
Present(objs, other) == LET In(obj) == Contains(other, obj) IN SelectSeq(objs, In)

Absent(objs, other) == LET Out(obj) == ~Contains(other, obj) IN SelectSeq(objs, Out)

\* C4: for duplicate-free A and B, A | B is every record of B in B's order,
\* then every record of A, in A's order, that is not in B; a record of both
\* appears once, where B's order puts it.
C4_UnionRightBiased ==
    (pc = "returned" /\ ret.op = "or" /\ NoDuplicates(A) /\ NoDuplicates(B)) =>
        /\ ReturnedObjects(B \o Absent(A, B))
        /\ NoDuplicates(ret.out.val.objects)

\* A | B was computed for A = Github, Gitlab and B = Gitlab, Email
C4_Witness ==
    /\ pc = "returned"
    /\ ret.op = "or"
    /\ A = <<Github, Gitlab>>
    /\ B = <<Gitlab, Email>>
    /\ ReturnedObjects(<<Gitlab, Email, Github>>)

\* C5: for all collections A and B, A & B is exactly the subsequence of A,
\* in A's order, made of the records of A that are in B.
C5_IntersectionIsSubsequence ==
    (pc = "returned" /\ ret.op = "and") => ReturnedObjects(Present(A, B))

\* C10: in every reachable state, whatever collection operations came
\* before (construction from a list that may hold repeats, copy, add,
\* filter, fuzzy, union, intersection), no collection holds two equal
\* records.
C10_NoDuplicateRecords ==
    /\ NoDuplicates(A)
    /\ NoDuplicates(B)
    /\ (ret.out.exc = "none" /\ ret.out.val.kind = "OpResponse") =>
           NoDuplicates(ret.out.val.objects)

----------------------------------------------------------------------------
(* A database and a caller's two collections side by side: queries run on  *)
(* the database while the caller builds and combines A and B                *)

FrameDatabases == { <<Github, Gitlab, Email>>, <<Cinq, Five>> }

Q_intersection == Q_title_Git \o <<"&">> \o Q_git_star

\* a filter, a fuzzy search, a union, an intersection, a text the parser
\* refuses, a filter that raises on the record whose n is a number, and None
FrameQueries ==
    { StrV(q) : q \in { Q_title_Git, Q_git_star, Q_union, Q_intersection,
                        Q_unclosed, Q_n_5 } } \cup {NoneV}

InitFrame ==
    /\ objects \in FrameDatabases
    /\ A = OpResponse_init(<<>>)
    /\ B = OpResponse_init(<<>>)
    /\ pc = "idle"
    /\ ret = NoCall
    /\ lexer = NoLexer

NextFrame ==
    \/ \E tql \in FrameQueries : RawQuery(tql)
    \/ \E name \in {"A", "B"}, copy_from \in Lists : Construct(name, copy_from)
    \/ \E name \in {"A", "B"}, obj \in ResponseRecords : Add(name, obj)
    \/ Copy
    \/ And
    \/ Or
    \/ \E leaf \in FilterLeaves : Filter(leaf)
    \/ \E leaf \in FuzzyLeaves : Fuzzy(leaf)
    \/ \E name \in {"A", "B"} : Keep(name)
    \/ Resume

SpecFrame == InitFrame /\ [][NextFrame]_vars

\* C11: no call changes a collection it is run against.  Whatever raw_query
\* is given, and whether it returns or raises, the database's list holds
\* the same records in the same order afterwards; filter, fuzzy, A | B and
\* A & B (and copy) leave A and B as they were, and what filter, fuzzy,
\* A | B and A & B return is a newly created collection.
C11_QueriesLeaveCollectionsUnchanged ==
    [][ (pc = "idle" /\ pc' = "returned") =>
            /\ objects' = objects
            /\ A' = A
            /\ B' = B
            /\ (ret'.op \in {"filter", "fuzzy", "and", "or"}
                    /\ ret'.out.exc = "none") =>
                   ret'.out.val.ref = "new" ]_vars

\* A & B was computed for A = Github, Gitlab and B = Gitlab, Email beside the
\* database Github, Gitlab, Email: the result is Gitlab alone, and A and B
\* are what they were
C11_Witness ==
    /\ pc = "returned"
    /\ ret.op = "and"
    /\ objects = D_titles
    /\ A = <<Github, Gitlab>>
    /\ B = <<Gitlab, Email>>
    /\ ReturnedObjects(<<Gitlab>>)

----------------------------------------------------------------------------
(* The tokenizer, one step of lex.token()'s scanning loop at a time         *)

\* the longest input text
MaxInput == 4

\* a letter, a digit, the quote, a character legal inside quotes only, a
\* character legal nowhere, an ignored character, a one-character token and
\* the newline
LexAlphabet == {"a", "5", "\"", "*", "#", " ", "=", "\n"}

Inputs == UNION {[1..n -> LexAlphabet] : n \in 0..MaxInput}

\* the scan is at a character of the input
AtCharacter == pc = "lexing" /\ lexer.lexpos <= Len(lexer.lexdata)

\* lexer.input(_input)
InitLex ==
    /\ objects = <<>>
    /\ A = <<>>
    /\ B = <<>>
    /\ pc = "lexing"
    /\ ret = NoCall
    /\ lexer \in {OpTqlLexer_input(_input) : _input \in Inputs}

\* a character of t_ignore is passed over
LexIgnore ==
    /\ AtCharacter
    /\ lexer.lexdata[lexer.lexpos] \in t_ignore
    /\ lexer' = [lexer EXCEPT !.lexpos = @ + 1]
    /\ UNCHANGED <<objects, A, B, pc, ret>>

\* t_newline matches: the lines are counted, no token is returned
LexNewline ==
    /\ AtCharacter
    /\ lexer.lexdata[lexer.lexpos] \notin t_ignore
    /\ LET m == RuleAt(lexer.lexdata, lexer.lexpos)
       IN /\ m.rule = "newline"
          /\ lexer' = [lexer EXCEPT !.lexpos = m.end]
    /\ UNCHANGED <<objects, A, B, pc, ret>>

\* a token rule matches: the token is returned
LexToken ==
    /\ AtCharacter
    /\ lexer.lexdata[lexer.lexpos] \notin t_ignore
    /\ LET m == RuleAt(lexer.lexdata, lexer.lexpos)
           text == SubSeq(lexer.lexdata, lexer.lexpos, m.end - 1)
       IN /\ m.rule \notin {"none", "newline"}
          /\ lexer' = [lexer EXCEPT !.lexpos = m.end,
                                    !.tokens = Append(@, TokenOf(m.rule, text))]
    /\ UNCHANGED <<objects, A, B, pc, ret>>

\* no rule matches: t_error is called; were the position the same after it,
\* lex would raise LexError and the scan would be over
LexError ==
    /\ AtCharacter
    /\ lexer.lexdata[lexer.lexpos] \notin t_ignore
    /\ RuleAt(lexer.lexdata, lexer.lexpos).rule = "none"
    /\ lexer' = t_error(lexer)
    /\ IF lexer'.lexpos = lexer.lexpos
       THEN /\ pc' = "returned"
            /\ ret' = Call("lex", StrV(lexer.lexdata), Raises("LexError", NoneV))
       ELSE UNCHANGED <<pc, ret>>
    /\ UNCHANGED <<objects, A, B>>

\* the end of the input: token() returns None, the scan is over
LexEnd ==
    /\ pc = "lexing"
    /\ lexer.lexpos > Len(lexer.lexdata)
    /\ pc' = "returned"
    /\ ret' = Call("lex", StrV(lexer.lexdata), Returns(lexer.tokens))
    /\ UNCHANGED <<objects, A, B, lexer>>

NextLex ==
    \/ LexIgnore
    \/ LexNewline
    \/ LexToken
    \/ LexError
    \/ LexEnd

SpecLex == InitLex /\ [][NextLex]_vars

\* no rule of the lexer starts at position i of s, and s[i] is not ignored
StartsNoRule(s, i) == s[i] \notin t_ignore /\ RuleAt(s, i).rule = "none"

\* the positions of the input t_error was called at
SkippedPositions == {lexer.illegal[k].lexpos : k \in DOMAIN lexer.illegal}

\* s with a space in the place of each character at one of the positions
Blanked(s, positions) ==
    [i \in DOMAIN s |-> IF i \in positions THEN " " ELSE s[i]]

----------------------------------------------------------------------------
(* A leaf's match, called on one target text                                *)

\* the longest literal and the longest target
MaxLiteral == 3
MaxTarget == 3

\* a letter, the dot and the wildcard
LiteralAlphabet == {"a", ".", "*"}

\* the letter in both cases, another letter, the dot and the newline
TargetAlphabet == {"a", "A", "x", ".", "\n"}

\* what t_STRING accepts between the quotes: one character or more
Literals == UNION {[1..n -> LiteralAlphabet] : n \in 1..MaxLiteral}

Targets == UNION {[1..n -> TargetAlphabet] : n \in 0..MaxTarget}

\* the leaves the parser builds of a literal: name="literal" and "literal"
LeavesOf(literal) ==
    { OpFilter(StrV(<<"f">>), StrV(literal)), OpFuzzy(StrV(literal)) }

InitMatch ==
    /\ objects = <<>>
    /\ A = <<>>
    /\ B = <<>>
    /\ pc = "idle"
    /\ ret = NoCall
    /\ lexer = NoLexer

\* leaf.match(value), leaf being built of literal
MatchCall(literal, leaf, value) ==
    /\ pc = "idle"
    /\ pc' = "returned"
    /\ ret' = Call("match", [literal |-> literal, leaf |-> leaf, value |-> value],
                   Match(leaf, value))
    /\ UNCHANGED <<objects, A, B, lexer>>

NextMatch ==
    \/ \E literal \in Literals, target \in Targets :
           \E leaf \in LeavesOf(literal) : MatchCall(literal, leaf, StrV(target))
    \/ Resume

SpecMatch == InitMatch /\ [][NextMatch]_vars

\* target is literal with each * replaced by some run of characters, empty
\* or not; with fold, letters are compared whatever their case
RECURSIVE GlobMatch(_, _, _)
GlobMatch(literal, target, fold) ==
    IF literal = <<>> THEN target = <<>>
    ELSE IF Head(literal) = "*"
         THEN \E k \in 0..Len(target) :
                  GlobMatch(Tail(literal), SubSeq(target, k + 1, Len(target)), fold)
    ELSE /\ target # <<>>
         /\ IF fold THEN Lower(Head(literal)) = Lower(Head(target))
            ELSE Head(literal) = Head(target)
         /\ GlobMatch(Tail(literal), Tail(target), fold)

\* C13: for every literal the tokenizer accepts and every target text, the
\* leaf built of the literal matches the target iff the whole target is the
\* literal with each * replaced by some run of characters, letter case
\* apart for a Fuzzy leaf; a . of the literal stands for a . only.
C13_OnlyStarIsWildcard ==
    (pc = "returned" /\ ret.op = "match") =>
        /\ ret.out.exc = "none"
        /\ ret.out.val = GlobMatch(ret.arg.literal, ret.arg.value.s,
                                   ret.arg.leaf.class = "OpFuzzy")

====
